---- MODULE Spec2Model ----
(***************************************************************************)
(* The task lifecycle of functions/ai.js (the /ai endpoint: submission,    *)
(* status polling, upscale chaining, finalize, index clean-up) together    *)
(* with the polling client of the React component App.                     *)
(*                                                                         *)
(* Strings the code builds by concatenation are kept as records of their   *)
(* parts: a file name is the sequence of its '.'-separated segments, an    *)
(* object key is [dir, ts, base, suffix, ext], a URL is [base, key].       *)
(***************************************************************************)
EXTENDS Integers, Sequences, FiniteSets, TLC

\* ------------------------------------------------------------------ bounds
\* Provider task ids are 1..MaxTasks; when they are used up the provider
\* rejects further jobs (a reply the code has to handle anyway).
MaxTasks == 3
\* Requests the endpoint holds between two of their awaits at the same time.
MaxCalls == 1
\* Fetches of App that are under way at the same time.
MaxInFlight == 2

TaskIds == 1..MaxTasks
CallIds == 1..MaxCalls
ReqIds == 1..MaxInFlight
\* the sender of a request that does not come from App
ApiCaller == 0
\* pollIntervalRef.current before the first setInterval
NoTimer == 0

\* ------------------------------------------------------------- JS values
\* undefined (a field or form entry that is not there), as a string
Absent == "<undefined>"
\* no task id (taskId missing, source_task_id undefined)
NoTask == 0
\* data.progress undefined
NoProgress == -1
\* formData.get('image') is null
NoFile == <<>>
NoRecord == [present |-> FALSE]
NullUrl == [url |-> "null"]
AbsentUrl == [url |-> "undefined"]
NoKey == [dir |-> "", ts |-> NoTask, base |-> <<>>, suffix |-> "", ext |-> ""]

\* env.R2_PUBLIC_URL
R2_PUBLIC_URL == "https://cdn"

\* Date.now() as read by a submission
Timestamps == {171}
\* imageFile.name, split at '.'
FileNames == {<<"cat", "jpg">>}
Prompts == {"zoom in"}
\* formData.get('prompt'): not there, empty, or a prompt
PromptFields == {Absent, ""} \cup Prompts
ImageFields == {NoFile} \cup FileNames
UpscaleFields == {Absent, "true"}
\* data.error of a non-2xx provider reply (Absent: the reply has no error field)
ProviderErrors == {Absent, "quota exceeded"}
\* data.failure.reason of a FAILED task
FailureReason == "content moderation"

Methods == {"OPTIONS", "GET", "POST"}
ContentTypes == {"multipart/form-data", "application/json", "text/plain"}

\* how the awaited calls of one submission turn out
SubmitOutcomes == {"ok", "imagePutFails", "rejected", "kvPutFails"}
\* how the provider answers GET /v1/tasks/{id}
StatusOutcomes == {"ok", "statusFails"}
\* how the awaited calls of the upscale branch turn out
UpscaleOutcomes == {"ok", "rejected", "kvPutFails"}
\* how the awaited calls of the finalize branch turn out
FinalizeOutcomes == {"ok", "noOutput", "downloadFails", "videoPutFails"}

VARIABLES
    envOk,      \* the four bindings of env are configured (ai.js:30)
    tasks,      \* the provider's jobs: id -> [kind, status, progress, source]
    kv,         \* env.TASK_INFO_KV: id -> TaskRecord or NoRecord
    bucket,     \* env.IMAGE_BUCKET: the keys that hold an object
    pendingDel, \* index deletions handed to context.waitUntil, not yet applied
    calls,      \* status requests between the index lookup and the end of their branch
    submitted,  \* history: the videoKey computed by the submission that created a task
    finalized,  \* history: [id, orig] of the status requests that ran finalize to its end
    lastDone,   \* the handler invocation that has just completed, with its effects,
                \* until its response is on its way (read by no handler)
    client,     \* App: its state hooks, pollIntervalRef and whether it is mounted
    timers,     \* the browser's active intervals: [id, taskId captured by the callback]
    net         \* App's fetches: sent, at the endpoint, or replied and not yet read
clientVars == <<client, timers, net>>
vars == <<envOk, tasks, kv, bucket, pendingDel, calls, submitted, finalized, lastDone,
          client, timers, net>>

\* ------------------------------------------------------------- provider
NoJob == [kind |-> "none", status |-> "NONE", progress |-> NoProgress, source |-> NoTask]

Exists(t) == t \in TaskIds /\ tasks[t].kind # "none"

FreeIds == {t \in TaskIds : tasks[t].kind = "none"}

Chains == {t \in TaskIds : tasks[t].kind = "gen"}

\* the id the provider gives its next job
NextId == CHOOSE t \in FreeIds : \A u \in FreeIds : t <= u

\* the generation task at the start of the chain a task belongs to
Orig(t) == IF tasks[t].kind = "upscale" THEN tasks[t].source ELSE t

\* what GET /v1/tasks/{id} replies for a job: status, progress, source_task_id
TaskData(t) ==
    [status |-> tasks[t].status, progress |-> tasks[t].progress, source |-> tasks[t].source,
     failure |-> IF tasks[t].status = "FAILED" THEN FailureReason ELSE Absent]

NoData == [status |-> Absent, progress |-> NoProgress, source |-> NoTask, failure |-> Absent]

\* ----------------------------------------------------------------- keys
\* imageFile.name.split('.').slice(0, -1).join('.') || imageFile.name
StripExt(name) ==
    LET head == SubSeq(name, 1, Len(name) - 1)
    IN  IF head = <<>> \/ head = <<"">> THEN name ELSE head

\* `uploads/${Date.now()}-${imageFile.name}`
ImageKey(ts, name) ==
    [dir |-> "uploads", ts |-> ts, base |-> name, suffix |-> "", ext |-> ""]

\* `videos/${Date.now()}-${base}${upscale ? '-4k' : ''}.mp4`
VideoKey(ts, name, upscale) ==
    [dir |-> "videos", ts |-> ts, base |-> StripExt(name),
     suffix |-> IF upscale THEN "-4k" ELSE "", ext |-> "mp4"]

\* `${base}/${key}`
PublicUrl(base, key) == [base |-> base, key |-> key]

TaskRecord(videoKey, upscale, originalTaskId) ==
    [present |-> TRUE, videoKey |-> videoKey, r2PublicUrl |-> R2_PUBLIC_URL,
     upscale |-> upscale, originalTaskId |-> originalTaskId]

\* ------------------------------------------------------------ responses
Error(msg, detail) == [msg |-> msg, detail |-> detail]
NoError == Error(Absent, Absent)

\* data.error || fallback
OrDefault(providerError, fallback) ==
    IF providerError # Absent THEN providerError ELSE fallback

Response(http, cors, json, success, taskId, status, progress, videoUrl, error) ==
    [http |-> http, cors |-> cors, json |-> json, success |-> success, taskId |-> taskId,
     status |-> status, progress |-> progress, videoUrl |-> videoUrl, error |-> error]

NoResponse == Response(NoTask, FALSE, FALSE, FALSE, NoTask, Absent, NoProgress, AbsentUrl, NoError)

\* new Response(JSON.stringify({ success: true, ... }),
\*              { headers: { 'Content-Type': 'application/json', 'Access-Control-Allow-Origin': '*' } })
JsonOk(taskId, status, progress, videoUrl) ==
    Response(200, TRUE, TRUE, TRUE, taskId, status, progress, videoUrl, NoError)

\* the top-level catch: { success: false, error: error.message }, status 500
CatchResponse(error) ==
    Response(500, FALSE, TRUE, FALSE, NoTask, Absent, NoProgress, AbsentUrl, error)

\* ---------------------------------------------------- handler invocations
\* A request: the form entries of a submission, the JSON body of a status check.
Request(prompt, image, upscale, taskId, action) ==
    [prompt |-> prompt, image |-> image, upscale |-> upscale, taskId |-> taskId,
     action |-> action]

NoRequest == Request(Absent, NoFile, Absent, NoTask, Absent)

\* How the awaited calls of an invocation turn out: which one fails, if any, and
\* the error field of a non-2xx provider reply.
How(outcome, providerError) == [outcome |-> outcome, providerError |-> providerError]

Job(id, kind, source, videoKey) ==
    [id |-> id, kind |-> kind, source |-> source, videoKey |-> videoKey]

\* What one handler invocation did. op, req and how name the request and its
\* environment; data is the provider's status reply, taskInfo the TaskRecord found
\* and via where ("taskId" or "source_task_id"), gone whether the request came
\* after a finalize of its task id whose deletions had taken effect (history);
\* again whether a finalize of the same task id had completed before this one
\* (history); resp is the response, puts the
\* object-store writes in order, kvPuts and kvDels the index writes and the
\* deletions handed to waitUntil, fetches the provider calls in order, created
\* the jobs the provider accepted.
Invocation(op, req, how) ==
    [op |-> op, req |-> req, how |-> how, data |-> NoData, taskInfo |-> NoRecord,
     via |-> "none", gone |-> FALSE, resp |-> NoResponse, puts |-> <<>>, kvPuts |-> {},
     kvDels |-> {}, fetches |-> <<>>, created |-> {}, again |-> FALSE]

NothingDone == Invocation("none", NoRequest, How("ok", Absent))

\* An error that no catch turns into a response (what C13 rules out).
ThrowUncaught(e, error) == e

\* throw new Error(...): caught at the top level, nothing after it happens
Throw(e, error) == [e EXCEPT !.resp = CatchResponse(error)]

\* -------------------------------------------------------------- onRequest
\* Where a request goes: the method checks, the configuration check and the
\* content-type dispatch.
Route(method, contentType) ==
    IF method = "OPTIONS" THEN "preflight"
    ELSE IF method # "POST" THEN "notAllowed"
    ELSE IF ~envOk THEN "config"
    ELSE IF contentType = "multipart/form-data" THEN "submit"
    ELSE IF contentType = "application/json" THEN "status"
    ELSE "badType"

\* The responses of the requests that reach neither branch.
RefusedResponse(route) ==
    CASE route = "preflight" ->
            Response(200, TRUE, FALSE, FALSE, NoTask, Absent, NoProgress, AbsentUrl, NoError)
      [] route = "notAllowed" ->
            Response(405, FALSE, FALSE, FALSE, NoTask, Absent, NoProgress, AbsentUrl, NoError)
      [] route = "config" ->
            Response(500, FALSE, TRUE, FALSE, NoTask, Absent, NoProgress, AbsentUrl,
                     Error("CRITICAL FIX REQUIRED", Absent))
      [] OTHER -> CatchResponse(Error("Invalid request content-type.", Absent))

\* A validation that forgets the image (what C5 rules out).
PromptOnlyCheck(req) == req.prompt = Absent \/ req.prompt = ""

\* !prompt || !imageFile
MissingInput(req) == req.prompt = Absent \/ req.prompt = "" \/ req.image = NoFile

\* A rejection that hides the provider's message (what C10 rules out).
GenericRejection(providerError) == "Failed to start generation."

\* data.error || 'Failed to start generation.'
RejectedMessage(providerError) == OrDefault(providerError, "Failed to start generation.")

\* A record that does not name its own task as the original (what C4 rules out).
RecordWithoutOrigin(videoKey, upscale, id) == TaskRecord(videoKey, upscale, NoTask)

\* the value Submit stores under data.id
SubmitRecord(videoKey, upscale, id) == TaskRecord(videoKey, upscale, id)

\* The multipart branch, from formData() to its return or throw; ts is Date.now().
SubmitEffects(req, ts, how) ==
    LET e0       == Invocation("submit", req, how)
        upscale  == req.upscale = "true"
        imageKey == ImageKey(ts, req.image)
        videoKey == VideoKey(ts, req.image, upscale)
        id       == NextId
        e1       == [e0 EXCEPT !.puts = <<imageKey>>]
        e2       == [e1 EXCEPT !.fetches = <<"POST /v1/image_to_video">>]
        e3       == [e2 EXCEPT !.created = {Job(id, "gen", NoTask, videoKey)}]
        e4       == [e3 EXCEPT !.kvPuts = {<<id, SubmitRecord(videoKey, upscale, id)>>}]
    IN  IF MissingInput(req)
        THEN Throw(e0, Error("Request is missing prompt or image file.", Absent))
        ELSE IF how.outcome = "imagePutFails"
        THEN Throw(e0, Error("R2 put failed", Absent))
        ELSE IF how.outcome = "rejected"
        THEN Throw(e2, Error(RejectedMessage(how.providerError), Absent))
        ELSE IF how.outcome = "kvPutFails"
        THEN Throw(e3, Error("KV put failed", Absent))
        ELSE [e4 EXCEPT !.resp = JsonOk(id, "PENDING", NoProgress, AbsentUrl)]

\* A lookup that treats a record whose deletion is under way as gone (the guard
\* C16 says is not there).
LookupUnlessDeleting(taskId, data) ==
    IF kv[taskId].present /\ taskId \notin pendingDel
    THEN [taskInfo |-> kv[taskId], via |-> "taskId"]
    ELSE [taskInfo |-> NoRecord, via |-> "none"]

\* TASK_INFO_KV.get(taskId), then TASK_INFO_KV.get(data.source_task_id)
Lookup(taskId, data) ==
    IF kv[taskId].present THEN [taskInfo |-> kv[taskId], via |-> "taskId"]
    ELSE IF data.source \in TaskIds /\ kv[data.source].present
    THEN [taskInfo |-> kv[data.source], via |-> "source_task_id"]
    ELSE [taskInfo |-> NoRecord, via |-> "none"]

\* The deletions of a completed finalize (of the polled id and of the record's
\* originalTaskId) have taken effect.
Gone(f) == ~kv[f.id].present /\ ~kv[f.orig].present

\* A status request for taskId comes after such a finalize of taskId.
AfterGone(taskId) == \E f \in finalized : f.id = taskId /\ Gone(f)

\* The provider's answer to the status fetch: 2xx only for a job it knows.
ReplyOk(req, how) == Exists(req.taskId) /\ how.outcome # "statusFails"

\* The status request gets as far as its branch: the task SUCCEEDED and has a TaskRecord.
ReachesBranch(req, how) ==
    /\ req.action = "status" /\ req.taskId # NoTask
    /\ ReplyOk(req, how)
    /\ TaskData(req.taskId).status = "SUCCEEDED"
    /\ Lookup(req.taskId, TaskData(req.taskId)).taskInfo.present

\* An answer that drops the provider's progress (what C6 rules out).
StatusWithoutProgress(data) == JsonOk(NoTask, data.status, NoProgress, NullUrl)

\* the last return: { success: true, status: data.status, progress: data.progress, videoUrl: null }
OtherStatusResponse(data) == JsonOk(NoTask, data.status, data.progress, NullUrl)

\* The JSON branch when it ends before CASE 1 and CASE 2: the body check, the
\* provider's status reply, the statuses other than SUCCEEDED, the missing record.
StatusEffects(req, how) ==
    LET e0   == Invocation("status", req, how)
        e1   == [e0 EXCEPT !.fetches = <<"GET /v1/tasks/{id}">>, !.gone = AfterGone(req.taskId)]
        data == TaskData(req.taskId)
        e2   == [e1 EXCEPT !.data = data]
    IN  IF req.action # "status" \/ req.taskId = NoTask
        THEN Throw(e0, Error("Invalid status check request.", Absent))
        ELSE IF ~ReplyOk(req, how)
        THEN Throw(e1, Error("Failed to check task status. Reason:",
                             OrDefault(how.providerError, "Unknown")))
        ELSE IF data.status # "SUCCEEDED"
        THEN [e2 EXCEPT !.resp = OtherStatusResponse(data)]
        ELSE Throw(e2, Error("Could not find task info for task ID:", ToString(req.taskId)))

\* taskInfo.upscale && taskId === taskInfo.originalTaskId
IsUpscaleCase(c) == c.taskInfo.upscale /\ c.req.taskId = c.taskInfo.originalTaskId

\* The invocation of a status request that reached its branch, up to the branch.
AtBranch(c, how) ==
    [Invocation("status", c.req, how) EXCEPT
        !.data = c.data, !.taskInfo = c.taskInfo, !.via = c.via, !.gone = c.gone,
        !.fetches = <<"GET /v1/tasks/{id}">>]

\* A record for the upscale job that names that job as the original, so that
\* upscaling would start again (what C3 rules out).
RecordRekeyed(taskInfo, upscaleId) == [taskInfo EXCEPT !.originalTaskId = upscaleId]

\* JSON.stringify(taskInfo): the value stored under the upscale job's id
UpscaleRecord(taskInfo, upscaleId) == taskInfo

\* A clean-up that leaves the original task's record behind (what C2 rules out).
DeletePolledOnly(taskId, info) == {taskId}

\* the keys handed to TASK_INFO_KV.delete
FinalizeDeletes(taskId, info) == {taskId, info.originalTaskId}

\* A key computed again at finalize, without the suffix (what C8 rules out).
KeyWithoutSuffix(info) == [info.videoKey EXCEPT !.suffix = ""]

\* the key of IMAGE_BUCKET.put in CASE 2
FinalizeKey(info) == info.videoKey

\* CASE 1: triggerUpscale(taskId, env), the new TaskRecord, the progress-50 answer.
\* The provider reports the upscaled task as the new job's source_task_id.
UpscaleEffects(c, how) ==
    LET e0 == AtBranch(c, how)
        id == NextId
        e1 == [e0 EXCEPT !.fetches = Append(e0.fetches, "POST /v1/tasks")]
        e2 == [e1 EXCEPT !.created = {Job(id, "upscale", c.req.taskId, NoKey)}]
        e3 == [e2 EXCEPT !.kvPuts = {<<id, UpscaleRecord(c.taskInfo, id)>>}]
    IN  IF how.outcome = "rejected"
        THEN Throw(e1, Error(OrDefault(how.providerError, "Failed to start upscale task."),
                             Absent))
        ELSE IF how.outcome = "kvPutFails"
        THEN Throw(e2, Error("KV put failed", Absent))
        ELSE [e3 EXCEPT !.resp = JsonOk(NoTask, "Upscaling to 4K...", 50, AbsentUrl)]

\* A finalize that hands the deletions over before it has stored the video (what
\* C11 rules out).
CleanupBeforeStore(c, how) ==
    LET e0   == [AtBranch(c, how) EXCEPT !.kvDels = FinalizeDeletes(c.req.taskId, c.taskInfo)]
        e1   == [e0 EXCEPT !.fetches = Append(e0.fetches, "GET output[0]")]
        e2   == [e1 EXCEPT !.puts = <<FinalizeKey(c.taskInfo)>>]
    IN  IF how.outcome \in {"noOutput", "downloadFails", "videoPutFails"}
        THEN Throw(e1, Error("finalize failed", Absent))
        ELSE [e2 EXCEPT !.resp = JsonOk(NoTask, c.data.status, 100,
                                        PublicUrl(c.taskInfo.r2PublicUrl,
                                                  FinalizeKey(c.taskInfo)))]

\* CASE 2: download the output, store it under taskInfo.videoKey, hand both
\* deletions to waitUntil, answer SUCCEEDED with the final URL.
FinalizeEffects(c, how) ==
    LET e0   == AtBranch(c, how)
        info == c.taskInfo
        e1   == [e0 EXCEPT !.fetches = Append(e0.fetches, "GET output[0]")]
        e2   == [e1 EXCEPT !.puts = <<FinalizeKey(info)>>]
        e3   == [e2 EXCEPT !.kvDels = FinalizeDeletes(c.req.taskId, info)]
    IN  IF how.outcome = "noOutput"
        THEN Throw(e0, Error("Task succeeded but no video URL was found.", Absent))
        ELSE IF how.outcome = "downloadFails"
        THEN Throw(e1, Error("Failed to download video from Runway. Status:", "404"))
        ELSE IF how.outcome = "videoPutFails"
        THEN Throw(e1, Error("R2 put failed", Absent))
        ELSE [e3 EXCEPT !.resp = JsonOk(NoTask, c.data.status, 100,
                                        PublicUrl(info.r2PublicUrl, FinalizeKey(info)))]

\* The branch a waiting status request takes.
BranchEffects(c, how) ==
    IF IsUpscaleCase(c) THEN UpscaleEffects(c, how) ELSE FinalizeEffects(c, how)

\* ------------------------------------------------------- applying effects
Range(seq) == {seq[i] : i \in DOMAIN seq}

NewJob(j) == [kind |-> j.kind, status |-> "PENDING", progress |-> NoProgress, source |-> j.source]

\* The calls an invocation made, carried out on the provider, the object store
\* and the index; the invocation becomes the completed one.
Commit(e) ==
    /\ tasks' = [t \in TaskIds |->
                    IF \E j \in e.created : j.id = t
                    THEN NewJob(CHOOSE j \in e.created : j.id = t)
                    ELSE tasks[t]]
    /\ submitted' = [t \in TaskIds |->
                        IF \E j \in e.created : j.id = t
                        THEN (CHOOSE j \in e.created : j.id = t).videoKey
                        ELSE submitted[t]]
    /\ kv' = [t \in TaskIds |->
                 IF \E p \in e.kvPuts : p[1] = t
                 THEN (CHOOSE p \in e.kvPuts : p[1] = t)[2]
                 ELSE kv[t]]
    /\ bucket' = bucket \cup Range(e.puts)
    /\ pendingDel' = pendingDel \cup e.kvDels
    /\ finalized' = IF e.puts # <<>> /\ e.op = "status"
                    THEN finalized \cup {[id |-> e.req.taskId, orig |-> e.taskInfo.originalTaskId]}
                    ELSE finalized
    /\ lastDone' = [e EXCEPT !.again = /\ e.puts # <<>> /\ e.op = "status"
                                       /\ \E f \in finalized : f.id = e.req.taskId]

IdleCall ==
    [pc |-> "idle", from |-> ApiCaller, req |-> NoRequest, data |-> NoData,
     taskInfo |-> NoRecord, via |-> "none", gone |-> FALSE]

\* a status request waiting at its branch, after the index lookup
BranchCall(from, req) ==
    LET found == Lookup(req.taskId, TaskData(req.taskId))
    IN  [pc |-> "branch", from |-> from, req |-> req, data |-> TaskData(req.taskId),
         taskInfo |-> found.taskInfo, via |-> found.via, gone |-> AfterGone(req.taskId)]

FreeCalls == {i \in CallIds : calls[i].pc = "idle"}

\* ------------------------------------------------------------- actions
\* The response of the invocation that completed has left. Every other step waits
\* for that: no handler reads lastDone, so the order loses no behaviour.
Quiet == lastDone = NothingDone

\* A request that reaches neither branch is answered at once.
Refuse ==
    \E method \in Methods, contentType \in ContentTypes :
        /\ Quiet
        /\ Route(method, contentType) \notin {"submit", "status"}
        /\ method # "POST" => contentType = "text/plain"
        /\ lastDone' = [Invocation("refused", NoRequest, How("ok", Absent)) EXCEPT
                           !.resp = RefusedResponse(Route(method, contentType))]
        /\ UNCHANGED <<envOk, tasks, kv, bucket, pendingDel, calls, submitted, finalized, clientVars>>

\* The outcomes an invocation can have: the provider accepts a job while it has an
\* id left, gives a generation job to one chain, and names an error only when it rejects.
Possible(how, isSubmit) ==
    /\ how.outcome \in {"ok", "kvPutFails"} => FreeIds # {} /\ (isSubmit => Chains = {})
    /\ how.outcome \in {"rejected", "statusFails"} \/ how.providerError = Absent

\* A submission sent straight to the endpoint.
ApiSubmit ==
    \E prompt \in PromptFields, image \in ImageFields, upscale \in UpscaleFields,
       ts \in Timestamps, outcome \in SubmitOutcomes, providerError \in ProviderErrors :
        LET req == Request(prompt, image, upscale, NoTask, Absent)
            how == How(outcome, providerError)
        IN  /\ Quiet
            /\ Route("POST", "multipart/form-data") = "submit"
            /\ Possible(how, TRUE)
            /\ Commit(SubmitEffects(req, ts, how))
            /\ UNCHANGED <<envOk, calls, clientVars>>

\* A status request sent straight to the endpoint: it ends here unless the task
\* SUCCEEDED and has a TaskRecord, and then waits at its branch.
ApiStatus ==
    \E taskId \in TaskIds \cup {NoTask}, action \in {"status", "cancel"},
       outcome \in StatusOutcomes, providerError \in ProviderErrors :
        LET req == Request(Absent, NoFile, Absent, taskId, action)
            how == How(outcome, providerError)
        IN  /\ Quiet
            /\ Route("POST", "application/json") = "status"
            /\ Possible(how, FALSE)
            /\ IF ReachesBranch(req, how)
               THEN /\ FreeCalls # {}
                    /\ calls' = [calls EXCEPT
                                    ![CHOOSE i \in FreeCalls : \A j \in FreeCalls : i <= j] =
                                        BranchCall(ApiCaller, req)]
                    /\ UNCHANGED <<tasks, kv, bucket, pendingDel, submitted, finalized, lastDone>>
               ELSE /\ Commit(StatusEffects(req, how))
                    /\ UNCHANGED calls
            /\ UNCHANGED <<envOk, clientVars>>

\* the reply to the fetch that is at the endpoint
Replied(slot, resp) == [slot EXCEPT !.stage = "replied", !.resp = resp]

\* CASE 1 or CASE 2 of a waiting status request, to its response.
StatusBranch(i) ==
    \E outcome \in UpscaleOutcomes \cup FinalizeOutcomes, providerError \in ProviderErrors :
        LET how == How(outcome, providerError)
            e   == BranchEffects(calls[i], how)
        IN  /\ Quiet
            /\ calls[i].pc = "branch"
            /\ outcome \in (IF IsUpscaleCase(calls[i]) THEN UpscaleOutcomes ELSE FinalizeOutcomes)
            /\ Possible(how, FALSE)
            /\ Commit(e)
            /\ calls' = [calls EXCEPT ![i] = IdleCall]
            /\ net' = IF calls[i].from = ApiCaller THEN net
                      ELSE [net EXCEPT ![calls[i].from] = Replied(@, e.resp)]
            /\ UNCHANGED <<envOk, client, timers>>

\* A deletion handed to context.waitUntil takes effect.
KvDelete(t) ==
    /\ Quiet
    /\ t \in pendingDel
    /\ kv' = [kv EXCEPT ![t] = NoRecord]
    /\ pendingDel' = pendingDel \ {t}
    /\ UNCHANGED <<envOk, tasks, bucket, calls, submitted, finalized, lastDone, clientVars>>

\* The provider works on a job: PENDING -> RUNNING -> SUCCEEDED, or FAILED.
ProviderStep(t) ==
    /\ Quiet
    /\ Exists(t)
    /\ \/ /\ tasks[t].status = "PENDING"
          /\ tasks' = [tasks EXCEPT ![t].status = "RUNNING", ![t].progress = 40]
       \/ /\ tasks[t].status = "RUNNING"
          /\ tasks' = [tasks EXCEPT ![t].status = "SUCCEEDED", ![t].progress = NoProgress]
       \/ /\ tasks[t].status \in {"PENDING", "RUNNING"}
          /\ tasks' = [tasks EXCEPT ![t].status = "FAILED", ![t].progress = NoProgress]
    /\ UNCHANGED <<envOk, kv, bucket, pendingDel, calls, submitted, finalized, lastDone, clientVars>>

\* The response of the completed invocation leaves the endpoint.
Respond ==
    /\ lastDone # NothingDone
    /\ lastDone' = NothingDone
    /\ UNCHANGED <<envOk, tasks, kv, bucket, pendingDel, calls, submitted, finalized, clientVars>>

\* ------------------------------------------------------------ App (client)
StatusText(text, status) == [text |-> text, status |-> status]

\* useState(...) of videoUrl, isGenerating, progress, status, error; useRef(null)
InitialClient ==
    [mounted |-> TRUE, videoUrl |-> NullUrl, isGenerating |-> FALSE, progress |-> 0,
     status |-> StatusText("", Absent), error |-> Error("", Absent),
     pollIntervalRef |-> NoTimer]

\* resetState
ResetState(c) ==
    [c EXCEPT !.videoUrl = NullUrl, !.isGenerating = FALSE, !.progress = 0,
              !.status = StatusText("", Absent), !.error = Error("", Absent)]

\* React drops the state updates of a component that is unmounted.
Render(c, updated) == IF c.mounted THEN updated ELSE c

\* formData.append('prompt', prompt); formData.append('image', selectedFile)
FormData(prompt, file) == Request(prompt, file, Absent, NoTask, Absent)

\* JSON.stringify({ taskId, action: 'status' })
StatusBody(taskId) == Request(Absent, NoFile, Absent, taskId, "status")

FreeSlot ==
    [stage |-> "free", kind |-> "none", timer |-> NoTimer, req |-> NoRequest,
     resp |-> NoResponse]

Sent(kind, timer, req) ==
    [stage |-> "sent", kind |-> kind, timer |-> timer, req |-> req, resp |-> NoResponse]

FreeSlots == {r \in ReqIds : net[r].stage = "free"}

FirstFreeSlot == CHOOSE r \in FreeSlots : \A q \in FreeSlots : r <= q

\* data.error || fallback, as the message of the Error thrown
MessageOr(error, fallback) == IF error = NoError THEN Error(fallback, Absent) ELSE error

\* statusData.failure?.reason || 'Video generation failed': no response of the
\* endpoint has a failure member
FailedMessage(resp) == Error(OrDefault(Absent, "Video generation failed"), Absent)

\* statusData.progress || 0
ShownProgress(progress) == IF progress = NoProgress THEN 0 ELSE progress

\* clearInterval(pollIntervalRef.current)
ClearInterval(c) == {tm \in timers : tm.id # c.pollIntervalRef}

\* generateVideo up to its fetch; the button is disabled while isGenerating, without
\* a file and without a prompt.
GenerateVideo ==
    \E prompt \in Prompts, file \in FileNames :
        /\ Quiet
        /\ client.mounted /\ ~client.isGenerating
        /\ FreeSlots # {}
        /\ client' = [ResetState(client) EXCEPT
                         !.isGenerating = TRUE,
                         !.status = StatusText("Uploading image and starting job...", Absent)]
        /\ net' = [net EXCEPT ![FirstFreeSlot] = Sent("submit", NoTimer, FormData(prompt, file))]
        /\ UNCHANGED <<envOk, tasks, kv, bucket, pendingDel, calls, submitted, finalized,
                       lastDone, timers>>

\* The endpoint handles App's submission.
UiSubmit(r) ==
    \E ts \in Timestamps, outcome \in SubmitOutcomes, providerError \in ProviderErrors :
        LET how   == How(outcome, providerError)
            route == Route("POST", "multipart/form-data")
            e     == IF route = "submit"
                     THEN SubmitEffects(net[r].req, ts, how)
                     ELSE [Invocation("refused", NoRequest, how) EXCEPT
                              !.resp = RefusedResponse(route)]
        IN  /\ Quiet
            /\ net[r].stage = "sent" /\ net[r].kind = "submit"
            /\ IF route = "submit" THEN Possible(how, FALSE) ELSE how = How("ok", Absent)
            /\ Commit(e)
            /\ net' = [net EXCEPT ![r] = Replied(@, e.resp)]
            /\ UNCHANGED <<envOk, calls, client, timers>>

\* generateVideo from response.json() on: the error, or pollForStatus(data.taskId)
\* with its setInterval.
SubmitReply(r) ==
    LET resp == net[r].resp
    IN  /\ Quiet
        /\ net[r].stage = "replied" /\ net[r].kind = "submit"
        /\ IF resp.http # 200 \/ ~resp.success
           THEN /\ client' = Render(client,
                                [client EXCEPT
                                    !.error = MessageOr(resp.error, "Failed to start video generation"),
                                    !.isGenerating = FALSE])
                /\ UNCHANGED timers
           ELSE /\ client' =
                       [Render(client,
                               [client EXCEPT
                                   !.status = StatusText("Video generation started, processing...",
                                                         Absent)])
                        EXCEPT !.pollIntervalRef = client.pollIntervalRef + 1]
                /\ timers' = timers \cup {[id |-> client.pollIntervalRef + 1,
                                           taskId |-> resp.taskId]}
        /\ net' = [net EXCEPT ![r] = FreeSlot]
        /\ UNCHANGED <<envOk, tasks, kv, bucket, pendingDel, calls, submitted, finalized,
                       lastDone>>

\* The interval fires: the callback sends its status request, with the taskId it
\* was created with.
Tick(tm) ==
    /\ Quiet
    /\ tm \in timers
    /\ FreeSlots # {}
    /\ net' = [net EXCEPT ![FirstFreeSlot] = Sent("poll", tm.id, StatusBody(tm.taskId))]
    /\ UNCHANGED <<envOk, tasks, kv, bucket, pendingDel, calls, submitted, finalized,
                   lastDone, client, timers>>

\* The endpoint handles App's status request, to its response or to its branch.
UiStatus(r) ==
    \E outcome \in StatusOutcomes, providerError \in ProviderErrors :
        LET how   == How(outcome, providerError)
            route == Route("POST", "application/json")
            e     == IF route = "status"
                     THEN StatusEffects(net[r].req, how)
                     ELSE [Invocation("refused", NoRequest, how) EXCEPT
                              !.resp = RefusedResponse(route)]
        IN  /\ Quiet
            /\ net[r].stage = "sent" /\ net[r].kind = "poll"
            /\ IF route = "status" THEN Possible(how, FALSE) ELSE how = How("ok", Absent)
            /\ IF route = "status" /\ ReachesBranch(net[r].req, how)
               THEN /\ FreeCalls # {}
                    /\ calls' = [calls EXCEPT
                                    ![CHOOSE i \in FreeCalls : \A j \in FreeCalls : i <= j] =
                                        BranchCall(r, net[r].req)]
                    /\ net' = [net EXCEPT ![r].stage = "branch"]
                    /\ UNCHANGED <<tasks, kv, bucket, pendingDel, submitted, finalized, lastDone>>
               ELSE /\ Commit(e)
                    /\ net' = [net EXCEPT ![r] = Replied(@, e.resp)]
                    /\ UNCHANGED calls
            /\ UNCHANGED <<envOk, client, timers>>

\* The interval's callback from statusResponse.ok on.
PollReply(r) ==
    LET resp   == net[r].resp
        shown  == [client EXCEPT !.status = StatusText("Status:", resp.status),
                                 !.progress = ShownProgress(resp.progress)]
        caught(c, error) == [c EXCEPT !.error = error, !.isGenerating = FALSE]
    IN  /\ Quiet
        /\ net[r].stage = "replied" /\ net[r].kind = "poll"
        /\ IF resp.http # 200
           THEN UNCHANGED <<client, timers>>
           ELSE IF ~resp.success
           THEN /\ client' = Render(client,
                                    caught(client, MessageOr(resp.error, "Failed to check status")))
                /\ timers' = ClearInterval(client)
           ELSE IF resp.status = "SUCCEEDED"
           THEN /\ client' = Render(client,
                                    [shown EXCEPT
                                        !.videoUrl = resp.videoUrl,
                                        !.status = StatusText("Video generation completed!", Absent),
                                        !.isGenerating = FALSE])
                /\ timers' = ClearInterval(client)
           ELSE IF resp.status = "FAILED"
           THEN /\ client' = Render(client, caught(shown, FailedMessage(resp)))
                /\ timers' = ClearInterval(client)
           ELSE /\ client' = Render(client, shown)
                /\ UNCHANGED timers
        /\ net' = [net EXCEPT ![r] = FreeSlot]
        /\ UNCHANGED <<envOk, tasks, kv, bucket, pendingDel, calls, submitted, finalized,
                       lastDone>>

\* The component is unmounted: the cleanup of the effect clears the interval in
\* pollIntervalRef.
Unmount ==
    /\ Quiet
    /\ client.mounted
    /\ client' = [client EXCEPT !.mounted = FALSE]
    /\ timers' = IF client.pollIntervalRef # NoTimer THEN ClearInterval(client) ELSE timers
    /\ UNCHANGED <<envOk, tasks, kv, bucket, pendingDel, calls, submitted, finalized,
                   lastDone, net>>

\* ------------------------------------------------------------ specifications
Init ==
    /\ envOk \in BOOLEAN
    /\ tasks = [t \in TaskIds |-> NoJob]
    /\ kv = [t \in TaskIds |-> NoRecord]
    /\ bucket = {}
    /\ pendingDel = {}
    /\ calls = [i \in CallIds |-> IdleCall]
    /\ submitted = [t \in TaskIds |-> NoKey]
    /\ finalized = {}
    /\ lastDone = NothingDone
    /\ client = InitialClient
    /\ timers = {}
    /\ net = [r \in ReqIds |-> FreeSlot]

\* The endpoint with callers that send their requests straight to it.
Next ==
    \/ Respond
    \/ Refuse
    \/ ApiSubmit
    \/ ApiStatus
    \/ \E i \in CallIds : StatusBranch(i)
    \/ \E t \in TaskIds : KvDelete(t)
    \/ \E t \in TaskIds : ProviderStep(t)

Spec == Init /\ [][Next]_vars

\* App and the endpoint.
ClientNext ==
    \/ Respond
    \/ GenerateVideo
    \/ \E r \in ReqIds : UiSubmit(r)
    \/ \E r \in ReqIds : SubmitReply(r)
    \/ \E tm \in timers : Tick(tm)
    \/ \E r \in ReqIds : UiStatus(r)
    \/ \E i \in CallIds : StatusBranch(i)
    \/ \E r \in ReqIds : PollReply(r)
    \/ Unmount
    \/ \E t \in TaskIds : KvDelete(t)
    \/ \E t \in TaskIds : ProviderStep(t)

ClientSpec == Init /\ [][ClientNext]_vars

\* ================================================================ claims
\* The invocation that has just completed is a status request / a submission.
StatusDone == lastDone.op = "status"
SubmitDone == lastDone.op = "submit"

\* ... a status request that ran CASE 2 (finalize) / CASE 1 (upscale).
FinalizeRan == StatusDone /\ lastDone.taskInfo.present /\ ~IsUpscaleCase(lastDone)
UpscaleRan == StatusDone /\ lastDone.taskInfo.present /\ IsUpscaleCase(lastDone)

\* the error of the missing TaskRecord
StateError(taskId) == Error("Could not find task info for task ID:", ToString(taskId))

\* C1 (as claimed), last sentence: after the upscale branch has run, polling
\* continues against the new upscale task id. The poller holds the id Submit
\* returned and what the endpoint answers, so the answer of the upscale branch
\* names the upscale job it started.
C1_UpscaleAnswerNamesNewTask ==
    (UpscaleRan /\ lastDone.how.outcome = "ok") =>
        lastDone.resp.taskId \in {j.id : j \in lastDone.created}

\* C2, first half: a status request on a SUCCEEDED task that is not in the upscale
\* case (a task without upscale, or an upscale follow-up), whose download and store
\* write succeed, writes the video once, at the record's videoKey, answers SUCCEEDED
\* with progress 100 and the final URL, and hands the deletion of the polled id and
\* of the record's originalTaskId to the index.
C2_FinalizeOnce ==
    (FinalizeRan /\ lastDone.how.outcome = "ok") =>
        /\ lastDone.data.status = "SUCCEEDED"
        /\ lastDone.puts = <<lastDone.taskInfo.videoKey>>
        /\ lastDone.resp = JsonOk(NoTask, "SUCCEEDED", 100,
                                  PublicUrl(lastDone.taskInfo.r2PublicUrl,
                                            lastDone.taskInfo.videoKey))
        /\ lastDone.kvDels = {lastDone.req.taskId, lastDone.taskInfo.originalTaskId}
        /\ lastDone.kvDels \subseteq pendingDel
        /\ lastDone.kvPuts = {} /\ lastDone.created = {}

\* C2, second half: a status request that arrives after those deletions have taken
\* effect, on that task id, ends in the error of the missing TaskRecord and writes
\* nothing to the object store.
C2_LaterPollFails ==
    (StatusDone /\ lastDone.gone /\ lastDone.data.status = "SUCCEEDED") =>
        /\ lastDone.resp = CatchResponse(StateError(lastDone.req.taskId))
        /\ lastDone.puts = <<>>

\* C2, second half: once the deletions have taken effect the records stay away.
C2_StaysGone == \A f \in finalized : Gone(f) => Gone(f)'

\* C2: PollStatus on a succeeded non-upscale task or upscale follow-up writes the
\* video exactly once at the destination key, returns SUCCEEDED/100/final URL and
\* deletes the TaskRecord under the polled id and the originalTaskId; once those
\* deletions have taken effect every further poll of that id yields
\* 'Could not find task info' and writes nothing.
C2_FinalizeThenGone ==
    /\ [](C2_FinalizeOnce /\ C2_LaterPollFails)
    /\ [][C2_StaysGone]_vars

\* C2's case: an upscale follow-up was finalized, both deletions took effect and a
\* further poll of it has just been answered.
C2_Witness ==
    /\ StatusDone /\ lastDone.gone /\ lastDone.data.status = "SUCCEEDED"
    /\ tasks[lastDone.req.taskId].kind = "upscale"

\* the upscale jobs an invocation started
UpscaleJobs(d) == {j \in d.created : j.kind = "upscale"}

\* C3: PollStatus on a SUCCEEDED task whose TaskRecord has upscale requested and
\* whose polled id is the record's originalTaskId performs no object-store write and
\* no index deletion and posts one upscale job to the provider; when the provider
\* accepts it and the index write succeeds, it writes exactly one new TaskRecord,
\* keyed by the upscale job's id, with the content of the original record, and
\* answers an in-progress status with progress 50 and no videoUrl.
C3_UpscaleBranch ==
    UpscaleRan =>
        /\ lastDone.data.status = "SUCCEEDED"
        /\ lastDone.puts = <<>> /\ lastDone.kvDels = {}
        /\ lastDone.fetches = <<"GET /v1/tasks/{id}", "POST /v1/tasks">>
        /\ lastDone.how.outcome = "ok" =>
            /\ Cardinality(lastDone.created) = 1
            /\ \E j \in UpscaleJobs(lastDone) :
                /\ j.source = lastDone.req.taskId
                /\ j.id # lastDone.req.taskId
                /\ lastDone.kvPuts =
                       {<<j.id, TaskRecord(submitted[lastDone.req.taskId], TRUE,
                                           lastDone.req.taskId)>>}
                /\ kv[j.id] = TaskRecord(submitted[lastDone.req.taskId], TRUE,
                                         lastDone.req.taskId)
            /\ lastDone.resp = JsonOk(NoTask, "Upscaling to 4K...", 50, AbsentUrl)

\* C3's case: the upscale branch has just answered progress 50.
C3_Witness == UpscaleRan /\ lastDone.how.outcome = "ok" /\ lastDone.resp.progress = 50

\* C4: when Submit returns its success response, it has written exactly one
\* TaskRecord, under the returned task id, with originalTaskId that same id, and no
\* other index key; the record is in the index.
C4_SubmitWritesOneRecord ==
    (SubmitDone /\ lastDone.resp.success) =>
        /\ lastDone.resp.taskId \in TaskIds
        /\ \E rec \in {p[2] : p \in lastDone.kvPuts} :
            /\ lastDone.kvPuts = {<<lastDone.resp.taskId, rec>>}
            /\ rec.present /\ rec.originalTaskId = lastDone.resp.taskId
            /\ kv[lastDone.resp.taskId] = rec
        /\ lastDone.kvDels = {}
        /\ {j.id : j \in lastDone.created} = {lastDone.resp.taskId}

\* C4's case: a submission has just been answered with success.
C4_Witness == SubmitDone /\ lastDone.resp.success /\ lastDone.resp.status = "PENDING"

\* C5: a submission without prompt (absent or empty) or without image ends in the error response of
\* the validation, calls no provider endpoint and writes nothing to the object
\* store or the index.
C5_MissingInputRejected ==
    (SubmitDone /\ (lastDone.req.prompt \in {Absent, ""} \/ lastDone.req.image = NoFile)) =>
        /\ lastDone.resp =
               CatchResponse(Error("Request is missing prompt or image file.", Absent))
        /\ lastDone.fetches = <<>> /\ lastDone.created = {}
        /\ lastDone.puts = <<>> /\ lastDone.kvPuts = {} /\ lastDone.kvDels = {}

\* C5's case: a submission with a prompt and no image has just been answered.
C5_Witness == SubmitDone /\ lastDone.req.prompt # Absent /\ lastDone.req.image = NoFile

\* C6: PollStatus on a task whose provider status is neither SUCCEEDED nor FAILED
\* returns that status and progress verbatim with videoUrl null, writes nothing to
\* the object store, puts and deletes nothing in the index and starts no provider job.
C6_OtherStatusVerbatim ==
    (StatusDone /\ lastDone.data.status \in {"PENDING", "RUNNING"}) =>
        /\ lastDone.resp.success /\ lastDone.resp.http = 200
        /\ lastDone.resp.status = lastDone.data.status
        /\ lastDone.resp.progress = lastDone.data.progress
        /\ lastDone.resp.videoUrl = NullUrl
        /\ lastDone.puts = <<>> /\ lastDone.kvPuts = {} /\ lastDone.kvDels = {}
        /\ lastDone.created = {} /\ lastDone.fetches = <<"GET /v1/tasks/{id}">>

\* C6's case: a poll of a RUNNING task with progress 40 has just been answered.
C6_Witness == StatusDone /\ lastDone.data.status = "RUNNING" /\ lastDone.data.progress = 40

\* C7 (as claimed): PollStatus on a FAILED task is answered with an error that
\* carries the provider's failure reason, not with a success response, and the
\* error App shows after reading the answer to such a poll is that reason.
C7_FailureReasonSurfaced ==
    /\ (StatusDone /\ lastDone.data.status = "FAILED") =>
           /\ ~lastDone.resp.success
           /\ lastDone.resp.error.msg = lastDone.data.failure
    /\ client.status = StatusText("Status:", "FAILED") =>
           client.error = Error(FailureReason, Absent)

\* C8: the key finalize writes is the videoKey the chain's submission computed, and
\* the returned videoUrl is publicBaseUrl/that key, with or without an upscale step
\* and whichever lookup found the TaskRecord.
C8_KeyRoundTrip ==
    (StatusDone /\ lastDone.puts # <<>>) =>
        /\ lastDone.puts = <<submitted[Orig(lastDone.req.taskId)]>>
        /\ lastDone.resp.videoUrl =
               PublicUrl(R2_PUBLIC_URL, submitted[Orig(lastDone.req.taskId)])

\* C8's case: an upscale follow-up whose record was found through source_task_id
\* has just been finalized.
C8_Witness ==
    /\ StatusDone /\ lastDone.puts # <<>> /\ lastDone.via = "source_task_id"
    /\ tasks[lastDone.req.taskId].kind = "upscale"

\* a finalize of the task's chain has completed
ChainFinalized(t) == \E f \in finalized : f.orig = Orig(t)

\* C9 (as claimed): every job this system created at the provider whose chain has
\* not been finalized has a TaskRecord under its task id.
C9_OutstandingHasRecord ==
    \A t \in TaskIds : (Exists(t) /\ ~ChainFinalized(t)) => kv[t].present

\* C10: when the provider rejects the generation job, Submit answers with an error
\* that carries the provider's message (the fallback text when the reply has none),
\* writes no TaskRecord and calls no other provider endpoint.
C10_RejectionSurfaced ==
    (SubmitDone /\ ~MissingInput(lastDone.req) /\ lastDone.how.outcome = "rejected") =>
        /\ ~lastDone.resp.success /\ lastDone.resp.http = 500
        /\ lastDone.resp.error.msg =
               (IF lastDone.how.providerError # Absent THEN lastDone.how.providerError
                ELSE "Failed to start generation.")
        /\ lastDone.kvPuts = {} /\ lastDone.created = {}
        /\ \A t \in TaskIds : kv[t] = NoRecord \/ Exists(t)
        /\ lastDone.fetches = <<"POST /v1/image_to_video">>

\* C10's case: a rejection with the provider's message has just been answered.
C10_Witness ==
    /\ SubmitDone /\ lastDone.how.outcome = "rejected"
    /\ lastDone.how.providerError = "quota exceeded"

\* finalize has just failed at the download or at the store write
FinalizeFailed ==
    FinalizeRan /\ lastDone.how.outcome \in {"downloadFails", "videoPutFails"}

\* what a poll of the same task id does next, when its calls succeed
Retry(d) == BranchEffects(BranchCall(ApiCaller, d.req), How("ok", Absent))

\* C11, the failed request: it ends in the error response, has written no video,
\* has put no record and has handed no deletion to the index.
C11_FailureKeepsRecords ==
    FinalizeFailed =>
        /\ ~lastDone.resp.success /\ lastDone.resp.http = 500
        /\ lastDone.puts = <<>> /\ lastDone.kvPuts = {} /\ lastDone.kvDels = {}

\* C11, the later poll: unless another request has finalized the chain meanwhile,
\* a poll of the same id reaches its branch again, finds the same record, takes the
\* finalize branch and, when its calls succeed, writes the key computed at
\* submission and answers SUCCEEDED with progress 100 and the final URL.
C11_RetryFinalizes ==
    (FinalizeFailed /\ ~ChainFinalized(lastDone.req.taskId)) =>
        /\ ReachesBranch(lastDone.req, How("ok", Absent))
        /\ BranchCall(ApiCaller, lastDone.req).taskInfo = lastDone.taskInfo
        /\ ~IsUpscaleCase(BranchCall(ApiCaller, lastDone.req))
        /\ Retry(lastDone).puts = <<submitted[Orig(lastDone.req.taskId)]>>
        /\ Retry(lastDone).resp =
               JsonOk(NoTask, "SUCCEEDED", 100,
                      PublicUrl(R2_PUBLIC_URL, submitted[Orig(lastDone.req.taskId)]))

\* C11, the step of the failed request: index, pending deletions and object store
\* are as they were.
C11_FailureStep ==
    (lastDone = NothingDone /\ FinalizeFailed') => UNCHANGED <<kv, pendingDel, bucket>>

\* C11: a finalize that fails at the download or at the store write deletes and
\* modifies no TaskRecord; a later poll of the same id finds the record again and
\* runs finalize from the start, to the same destination key, ending in SUCCEEDED
\* with the final URL.
C11_FailedFinalizeIsRetried ==
    /\ [](C11_FailureKeepsRecords /\ C11_RetryFinalizes)
    /\ [][C11_FailureStep]_vars

\* C11's case: the store write of a finalize of an upscale follow-up has just failed.
C11_Witness ==
    /\ FinalizeFailed /\ lastDone.how.outcome = "videoPutFails"
    /\ tasks[lastDone.req.taskId].kind = "upscale"

\* C12 (as claimed): every JSON response of the endpoint, success or error, the
\* configuration error and the catch's error included, carries
\* Access-Control-Allow-Origin: *.
C12_JsonCarriesCors == lastDone.resp.json => lastDone.resp.cors

\* the failure kinds of a POST request, told from the request and from how its
\* awaited calls turn out
Fails(d) ==
    CASE d.op = "submit" -> MissingInput(d.req) \/ d.how.outcome # "ok"
      [] d.op = "status" /\ d.taskInfo.present -> d.how.outcome # "ok"
      [] d.op = "status" /\ ~d.taskInfo.present ->
            \/ d.req.action # "status" \/ d.req.taskId = NoTask
            \/ ~ReplyOk(d.req, d.how)
            \/ d.data.status = "SUCCEEDED"
      [] OTHER -> FALSE

\* C13: every failure raised while a POST request is handled (missing prompt or
\* image, provider rejection or non-2xx status reply, missing TaskRecord, store or
\* index failure, malformed status request, unsupported content type) is answered
\* with { success: false, error: message } and HTTP 500; a request without failure
\* is answered with success and HTTP 200; no other status code and no request
\* without a response occurs.
C13_FailuresAnswered500 ==
    /\ lastDone.op \in {"submit", "status"} =>
          IF Fails(lastDone)
          THEN /\ lastDone.resp.http = 500 /\ lastDone.resp.json
               /\ ~lastDone.resp.success /\ lastDone.resp.error.msg # Absent
          ELSE lastDone.resp.http = 200 /\ lastDone.resp.success
    /\ (lastDone.op = "refused" /\ lastDone.resp.http \notin {200, 405}) =>
          /\ lastDone.resp.http = 500 /\ lastDone.resp.json
          /\ ~lastDone.resp.success /\ lastDone.resp.error.msg # Absent

\* C13's case: a poll of a SUCCEEDED task whose record is missing has just been
\* answered.
C13_Witness ==
    /\ StatusDone /\ lastDone.data.status = "SUCCEEDED" /\ ~lastDone.taskInfo.present
    /\ lastDone.resp.http = 500

\* App reads, in this step, the answer to the poll in slot r, and the answer
\* reports SUCCEEDED or FAILED.
ReadsTerminal(r) ==
    /\ net[r].stage = "replied" /\ net[r].kind = "poll" /\ net'[r].stage = "free"
    /\ net[r].resp.http = 200 /\ net[r].resp.success
    /\ net[r].resp.status \in {"SUCCEEDED", "FAILED"}

\* C14, teardown: no interval is active once the component is unmounted.
C14_NoTimerAfterUnmount == ~client.mounted => timers = {}

\* C14, success and failure: when App has read a poll answer that reports SUCCEEDED
\* or FAILED, no interval polls that task any more.
C14_TerminalClearsTimer ==
    \A r \in ReqIds :
        ReadsTerminal(r) => \A tm \in timers' : tm.taskId # net[r].req.taskId

\* C14 (as claimed): the poll timer is cancelled on success, on failure and on
\* teardown alike, so that no new poll request is issued for the task afterwards.
C14_TimerCancelled ==
    /\ []C14_NoTimerAfterUnmount
    /\ [][C14_TerminalClearsTimer]_vars

\* the generations in progress: the submissions under way and the active intervals
SubmitsUnderWay == {r \in ReqIds : net[r].kind = "submit" /\ net[r].stage # "free"}

\* C15 (as claimed): in every reachable client state at most one generation is in
\* progress and at most one poll interval is active.
C15_SingleFlight ==
    /\ Cardinality(timers) <= 1
    /\ Cardinality(SubmitsUnderWay) + Cardinality(timers) <= 1

\* C16, unguarded: as long as the record of a finalized task is in the index (the
\* deletion has not taken effect), a poll of that id reaches its branch with that
\* record again and takes the finalize branch.
C16_Unguarded ==
    \A f \in finalized :
        kv[f.id].present =>
            /\ ReachesBranch(StatusBody(f.id), How("ok", Absent))
            /\ BranchCall(ApiCaller, StatusBody(f.id)).taskInfo = kv[f.id]
            /\ ~IsUpscaleCase(BranchCall(ApiCaller, StatusBody(f.id)))

\* C16, the second finalize: a finalize of a chain that had been finalized before
\* writes the key that is in the object store already, the one computed at
\* submission, and answers the URL of that key.
C16_SameKeySameUrl ==
    (lastDone = NothingDone /\ FinalizeRan' /\ lastDone'.how.outcome = "ok"
        /\ ChainFinalized(lastDone'.req.taskId)) =>
            /\ lastDone'.puts = <<submitted[Orig(lastDone'.req.taskId)]>>
            /\ lastDone'.puts[1] \in bucket /\ bucket' = bucket
            /\ lastDone'.resp = JsonOk(NoTask, "SUCCEEDED", 100,
                                       PublicUrl(R2_PUBLIC_URL, lastDone'.puts[1]))

UpscalesOf(t) == {u \in TaskIds : tasks[u].kind = "upscale" /\ tasks[u].source = t}

\* the records of a chain in the index besides the one written at submission
ExtraRecords(t) == {u \in TaskIds \ {t} : kv[u].present /\ kv[u].originalTaskId = t}

\* C17: over the polls of one submission the upscale step is entered at most once
\* and only when upscale was requested: the provider holds at most one upscale job
\* for the chain, the index at most one record besides the one written at
\* submission, however often the original task id is polled after it succeeded.
C17_UpscaleAtMostOnce ==
    /\ UpscaleRan => lastDone.taskInfo.upscale
    /\ \A t \in Chains :
        /\ Cardinality(UpscalesOf(t)) <= 1
        /\ Cardinality(ExtraRecords(t)) <= 1

\* App reads, in this step, the answer to the poll in slot r, and the answer is an
\* error response of the endpoint.
ReadsError(r) ==
    /\ net[r].stage = "replied" /\ net[r].kind = "poll" /\ net'[r].stage = "free"
    /\ ~net[r].resp.success

\* the endpoint sends {success: false, error} with HTTP 500 and never otherwise
C18_ErrorsAre500 ==
    \A r \in ReqIds :
        (net[r].stage = "replied" /\ ~net[r].resp.success) => net[r].resp.http = 500

\* C18, the client's part: when the mounted App has read an error response to a
\* poll, the error is shown, isGenerating is false and the interval that sent the
\* poll is cleared.
C18_ErrorShown ==
    \A r \in ReqIds :
        (ReadsError(r) /\ client.mounted) =>
            /\ client'.error = net[r].resp.error
            /\ ~client'.isGenerating
            /\ \A tm \in timers' : tm.id # net[r].timer

\* C18 (as claimed): a poll answered with an error response of the endpoint
\* ({success: false, error}, always HTTP 500) makes the client show the error, set
\* isGenerating to false and clear the poll interval; it does not go on polling.
C18_PollErrorEndsPolling ==
    /\ []C18_ErrorsAre500
    /\ [][C18_ErrorShown]_vars

\* The answer in slot r belongs to an earlier generation: the interval that sent the
\* poll has been cleared and App, still mounted, is generating again.
FromEarlierGeneration(r) ==
    /\ net[r].stage = "replied" /\ net[r].kind = "poll"
    /\ \A tm \in timers : tm.id # net[r].timer
    /\ client.mounted /\ client.isGenerating

\* C19, one step: App reading a poll answer that belongs to an earlier generation does not
\* change the new generation's state: videoUrl stays, isGenerating stays true, the
\* new generation's interval stays active.
C19_StaleReplyStep ==
    \A r \in ReqIds :
        (FromEarlierGeneration(r) /\ net'[r].stage = "free") =>
            /\ client'.videoUrl = client.videoUrl
            /\ client'.isGenerating
            /\ timers' = timers

\* C19 (as claimed): a poll response that belongs to an earlier generation never
\* changes the new generation's state.
C19_StaleReplyIgnored == [][C19_StaleReplyStep]_vars

====
